---- MODULE Spec2Model ----
(***************************************************************************)
(* Model of the two trackers of this repository:                           *)
(*   fitness_tracker.py    (class FitSimple,        prog = "simple")       *)
(*   fittracker_modern.py  (class FitTrackerModern, prog = "modern")       *)
(* Strings that the code compares or parses (dates, food list lines) are   *)
(* sequences of one-character strings; numbers that the code rounds to two *)
(* decimals are integers counting hundredths.                              *)
(***************************************************************************)
EXTENDS Integers, Sequences, FiniteSets, TLC

VARIABLES prog, now, next_id, workouts, nutrition, foods, disk, last

vars == <<prog, now, next_id, workouts, nutrition, foods, disk, last>>

(***************************************************************************)
(* Characters and Python's str ordering (code points).                     *)
(***************************************************************************)
DIGITS == <<"0", "1", "2", "3", "4", "5", "6", "7", "8", "9">>

IsDigit(c) == c \in {"0", "1", "2", "3", "4", "5", "6", "7", "8", "9"}

DigitVal(c) == (CHOOSE i \in 1..10 : DIGITS[i] = c) - 1

\* ord(c) for the characters that occur in the modelled strings
Code(c) ==
    IF c = " " THEN 32
    ELSE IF c = "-" THEN 45
    ELSE IF IsDigit(c) THEN 48 + DigitVal(c)
    ELSE 120

\* a < b for Python strings: first differing character decides, a proper
\* prefix is smaller
StrLess(a, b) ==
    \/ \E i \in 1..Len(a) :
          /\ i <= Len(b)
          /\ \A j \in 1..(i - 1) : a[j] = b[j]
          /\ Code(a[i]) < Code(b[i])
    \/ /\ Len(a) < Len(b)
       /\ \A j \in 1..Len(a) : a[j] = b[j]

\* a >= b, the comparison of prune_data
StrGeq(a, b) == ~StrLess(a, b)

(***************************************************************************)
(* The proleptic Gregorian calendar of datetime.date.                      *)
(***************************************************************************)
BaseYear == 2025
LastYear == 2026

IsLeap(y) == (y % 4 = 0) /\ ((y % 100 # 0) \/ (y % 400 = 0))

DaysInMonth(y, m) ==
    IF m = 2 THEN (IF IsLeap(y) THEN 29 ELSE 28)
    ELSE IF m \in {4, 6, 9, 11} THEN 30
    ELSE 31

DaysInYear(y) == IF IsLeap(y) THEN 366 ELSE 365

RECURSIVE DaysBeforeYear(_)
DaysBeforeYear(y) ==
    IF y <= BaseYear THEN 0 ELSE DaysBeforeYear(y - 1) + DaysInYear(y - 1)

RECURSIVE DaysBeforeMonth(_, _)
DaysBeforeMonth(y, m) ==
    IF m <= 1 THEN 0 ELSE DaysBeforeMonth(y, m - 1) + DaysInMonth(y, m - 1)

\* date.toordinal(), counted from 1 January of BaseYear
Ord(y, m, d) == DaysBeforeYear(y) + DaysBeforeMonth(y, m) + d

Dates ==
    {dt \in [y : BaseYear..LastYear, m : 1..12, d : 1..31] :
        dt.d <= DaysInMonth(dt.y, dt.m)}

\* date.fromordinal(): a table over the modelled years
FromOrdTable ==
    [n \in 1..DaysBeforeYear(LastYear + 1) |->
        CHOOSE dt \in Dates : Ord(dt.y, dt.m, dt.d) = n]

FromOrd(n) == FromOrdTable[n]

(***************************************************************************)
(* strftime("%Y-%m-%d") and strptime(s, "%Y-%m-%d").                       *)
(***************************************************************************)
Fmt2(n) == <<DIGITS[(n \div 10) + 1], DIGITS[(n % 10) + 1]>>

Fmt4(n) == Fmt2(n \div 100) \o Fmt2(n % 100)

\* zero-padded, as strftime writes it
Strftime(dt) == Fmt4(dt.y) \o <<"-">> \o Fmt2(dt.m) \o <<"-">> \o Fmt2(dt.d)

\* the same day typed without leading zeros, e.g. 2026-9-1
Unpadded(dt) ==
    LET num(n) == IF n < 10 THEN <<DIGITS[n + 1]>> ELSE Fmt2(n)
    IN  Fmt4(dt.y) \o <<"-">> \o num(dt.m) \o <<"-">> \o num(dt.d)

NoDate == [y |-> 0, m |-> 0, d |-> 0]

\* %m : 1[0-2]|0[1-9]|[1-9]
MonthToken(t) ==
    \/ Len(t) = 2 /\ t[1] = "1" /\ t[2] \in {"0", "1", "2"}
    \/ Len(t) = 2 /\ t[1] = "0" /\ IsDigit(t[2]) /\ t[2] # "0"
    \/ Len(t) = 1 /\ IsDigit(t[1]) /\ t[1] # "0"

\* %d : 3[0-1]|[1-2]\d|0[1-9]|[1-9]| [1-9]
DayToken(t) ==
    \/ Len(t) = 2 /\ t[1] = "3" /\ t[2] \in {"0", "1"}
    \/ Len(t) = 2 /\ t[1] \in {"1", "2"} /\ IsDigit(t[2])
    \/ Len(t) = 2 /\ t[1] \in {"0", " "} /\ IsDigit(t[2]) /\ t[2] # "0"
    \/ Len(t) = 1 /\ IsDigit(t[1]) /\ t[1] # "0"

\* int() of a token; the blank of " 5" is skipped
TokenVal(t) ==
    IF Len(t) = 1 THEN DigitVal(t[1])
    ELSE IF t[1] = " " THEN DigitVal(t[2])
    ELSE 10 * DigitVal(t[1]) + DigitVal(t[2])

YearVal(t) ==
    1000 * DigitVal(t[1]) + 100 * DigitVal(t[2]) + 10 * DigitVal(t[3]) + DigitVal(t[4])

\* the (lm, ld) token lengths under which s matches the whole format
StrptimeSplits(s) ==
    {p \in {1, 2} \X {1, 2} :
        /\ Len(s) = 6 + p[1] + p[2]
        /\ s[5] = "-"
        /\ s[6 + p[1]] = "-"
        /\ \A i \in 1..4 : IsDigit(s[i])
        /\ MonthToken(SubSeq(s, 6, 5 + p[1]))
        /\ DayToken(SubSeq(s, 7 + p[1], Len(s)))}

\* the date strptime returns, NoDate where it raises ValueError
Strptime(s) ==
    LET splits == StrptimeSplits(s)
    IN  IF splits = {} THEN NoDate
        ELSE LET p  == CHOOSE q \in splits : TRUE
                 yy == YearVal(SubSeq(s, 1, 4))
                 mm == TokenVal(SubSeq(s, 6, 5 + p[1]))
                 dd == TokenVal(SubSeq(s, 7 + p[1], Len(s)))
             IN  IF yy >= 1 /\ dd <= DaysInMonth(yy, mm)
                 THEN [y |-> yy, m |-> mm, d |-> dd]
                 ELSE NoDate

\* try: datetime.strptime(date, "%Y-%m-%d")  succeeded
DateAccepted(s) == Strptime(s) # NoDate

\* ordinal of the calendar day a stored (accepted) date string denotes
DayOf(s) == LET dt == Strptime(s) IN Ord(dt.y, dt.m, dt.d)

\* today_str() and (datetime.now().date() - timedelta(days=k)).strftime(...)
DayStr(n) == Strftime(FromOrd(n))

today_str == DayStr(now)

(***************************************************************************)
(* Bounds of the model and the inputs the dialogs are given.               *)
(***************************************************************************)
MaxSessions == 2
MaxMeals == 2
MaxId == 2
MaxTicks == 1
MaxWorkoutId == 3

MaxTrend == 2
\* a food deletion makes at most this many save_json calls
MaxWrites == 3

SESSION_KEEP_DAYS == 14
MEAL_KEEP_DAYS == 7
SIMPLE_REPORT_DAYS == 7
DEFAULT_TREND == 14

\* the day the program is first started: 1 November 2026
StartDay == Ord(2026, 11, 1)

BLANK == <<>>
BadDate == Fmt4(2026) \o <<"-">> \o Fmt2(2) \o <<"-">> \o Fmt2(30)

\* what is typed into the "Date" dialog of add_session
SessionDateInputs ==
    {BadDate,
     DayStr(StartDay - SESSION_KEEP_DAYS),
     Unpadded(FromOrd(StartDay - 61))}

\* what is typed into the two dialogs of edit_session: a blank keeps the value
EditNameInputs == {"", "Pull"}
EditDateInputs == {BLANK, BadDate, DayStr(StartDay - 1)}

\* what is typed into the dialogs of add_ex / add_exercise; the weight in
\* thousandths of a kg
ExerciseNames == {"Bench", ""}
SetInputs == {3}
RepInputs == {8}
WeightInputs == {60000, 80000}

\* what is typed into a dialog of edit_exercise: nothing, a text that float()
\* or int() rejects, or a number
KeepText == [typed |-> "blank", val |-> 0]
BadText == [typed |-> "bad", val |-> 0]
Typed(v) == [typed |-> "number", val |-> v]
ExerciseEdits ==
    {[name |-> "Squat", w |-> BadText, r |-> KeepText],
     [name |-> "", w |-> Typed(70000), r |-> Typed(10)]}

\* what is typed into the meal date entry
MealDateInputs == {BLANK, BadDate, DayStr(StartDay - MEAL_KEEP_DAYS)}

\* today's date typed into the meal date entry: left blank, without and with
\* the leading zeros
TodayInputs == {BLANK, Unpadded(FromOrd(StartDay)), DayStr(StartDay)}

\* the meal date entry of fitness_tracker.py: today's date as it may be typed,
\* and the oldest date that prune_data retains
WindowDateInputs == TodayInputs \cup {DayStr(StartDay - MEAL_KEEP_DAYS)}

\* the entry text when a handler ends by calling load_meals: a date or not.
\* The text decides only whether that call saves once more, so it is varied
\* only where a save can fail.
ReloadInputs(fault) == IF fault.at = 0 THEN {BLANK} ELSE {BLANK, BadDate}

\* what is typed into the "Name" dialog of add_session
NameInputs == {"Push", ""}

\* " — ", the separator refresh_foods puts after the name in a list line
SEP == " -- "
Rice == <<"rice">>
RiceBowl == <<"rice", SEP, "bowl">>
FoodNames == {Rice, RiceBowl}

\* per 100 g, in hundredths: 165 kcal / 31 g when a food is added,
\* 90 kcal / 10 g when it is edited
FoodValueInputs == {[cal |-> 16500, prot |-> 3100]}
EditFoodValueInputs == {[cal |-> 9000, prot |-> 1000]}

\* grams as typed into askfloat, in thousandths: 150 g when a meal is logged,
\* 100 g when it is edited
GramInputs == {150000}
EditGramInputs == {100000}

\* 100.004 g: grams typed with more than two decimals
FineGramInputs == {100004}

TrendInputs == (0 - 1)..MaxTrend

(***************************************************************************)
(* Files.  A document is ok (val is what json.load returns), missing, or   *)
(* corrupt (a write that failed after open(fn, "w") truncated the file).   *)
(***************************************************************************)
WORKOUT_FILE == "workouts.json"
NUTR_FILE == "nutrition.json"
FOODS_FILE == "foods.json"
Files == {WORKOUT_FILE, NUTR_FILE, FOODS_FILE}

NoFoods == [x \in {} |-> 0]

\* the default argument of each load_json call
Default(file) ==
    IF file = NUTR_FILE THEN [meals |-> <<>>, foods |-> NoFoods]
    ELSE IF file = WORKOUT_FILE THEN [sessions |-> <<>>]
    ELSE NoFoods

Missing(file) == [st |-> "missing", val |-> Default(file)]
Corrupt(file) == [st |-> "corrupt", val |-> Default(file)]
Stored(v) == [st |-> "ok", val |-> v]

\* load_json(fn, default): what json.load returns when the file is there and
\* parses, the default otherwise
load_json(d, file) == IF d[file].st = "ok" THEN d[file].val ELSE Default(file)

\* doc.get(key, default)
Get(doc, key, default) == IF key \in DOMAIN doc THEN doc[key] ELSE default

\* a well-formed JSON document that has none of the containers: {"other": []}
NoContainers == [other |-> <<>>]

\* the collections held in memory: w = workouts["sessions"],
\* n = nutrition["meals"], f = foods (simple) or nutrition["foods"] (modern)
Mem == [w |-> workouts, n |-> nutrition, f |-> foods]

\* what json.dump writes to `file` when the collections are m
Doc(p, file, m) ==
    IF file = WORKOUT_FILE THEN [sessions |-> m.w]
    ELSE IF file = FOODS_FILE THEN m.f
    ELSE [meals |-> m.n, foods |-> IF p = "modern" THEN m.f ELSE NoFoods]

\* one save_json call, made when the collections are m
Save(file, m) == [file |-> file, m |-> m]

NoFault == [at |-> 0, how |-> "none"]

\* The disk after the save_json calls `writes` made in order, where call
\* number fault.at raises (how = "open": open() fails and the file is as it
\* was; how = "write": the file is left truncated) and ends the handler.
DiskAfter(p, d, writes, fault) ==
    LET failed == fault.at \in 1..Len(writes)
        upto   == IF failed THEN fault.at - 1 ELSE Len(writes)
    IN  [file \in Files |->
            LET idx == {i \in 1..upto : writes[i].file = file}
            IN  IF failed /\ writes[fault.at].file = file /\ fault.how = "write"
                THEN Corrupt(file)
                ELSE IF idx = {} THEN d[file]
                ELSE LET k == CHOOSE i \in idx : \A j \in idx : j <= i
                     IN  Stored(Doc(p, file, writes[k].m))]

\* The collections after the handler: those of the moment the failing save
\* was called, or mfinal when every save succeeded.
MemAfter(writes, mfinal, fault) ==
    IF fault.at \in 1..Len(writes) THEN writes[fault.at].m ELSE mfinal

Completed(writes, fault) == ~(fault.at \in 1..Len(writes))

\* a handler's effect on the collections and the files
Commit(writes, mfinal, fault) ==
    LET m == MemAfter(writes, mfinal, fault)
    IN  /\ fault.at <= Len(writes)
        /\ workouts' = m.w
        /\ nutrition' = m.n
        /\ foods' = m.f
        /\ disk' = DiskAfter(prog, disk, writes, fault)

(***************************************************************************)
(* Records and the computations shared by the two programs.                *)
(***************************************************************************)
\* an id source that returns again the value it returned last
make_id_Reused == IF next_id > 1 THEN next_id - 1 ELSE next_id

\* make_id(): a value never returned before
make_id == next_id

\* the session dict of add_session; created stands for
\* datetime.now().isoformat(), a clock that grows with every record made
NewSession(name, date) ==
    [id |-> make_id, name |-> name, date |-> date, created |-> next_id,
     exercises |-> <<>>]

\* q + r / d rounded to an integer, ties to even
RoundHalfEven(q, r, d) ==
    IF 2 * r > d THEN q + 1
    ELSE IF 2 * r < d THEN q
    ELSE IF q % 2 = 0 THEN q ELSE q + 1

\* round(x, 2) of the exact quotient n / d, counted in hundredths
RoundDiv(n, d) == RoundHalfEven(n \div d, n % d, d)

\* round(float(grams), 2): the grams a meal stores, in hundredths
StoredGrams(grams) == RoundDiv(grams, 10)

\* round(per100 * (grams / 100.0), 2) in hundredths, of per100 in hundredths
\* and the grams as typed in thousandths: per100 * grams / 100000, the
\* product taken in two parts to stay within 32 bits
Derived(per100, grams) ==
    LET rest == per100 * (grams % 100000)
    IN  RoundHalfEven(per100 * (grams \div 100000) + rest \div 100000,
                      rest % 100000, 100000)

\* the meal dict of log_meal / add_meal
NewMeal(date, choice, grams, f) ==
    [id |-> make_id, date |-> date, time |-> next_id, food |-> choice,
     grams |-> StoredGrams(grams),
     calories |-> Derived(f.cal, grams),
     protein |-> Derived(f.prot, grams)]

\* [x for x in seq if x[key] != v]
WithoutId(seq, id) == SelectSeq(seq, LAMBDA x : x.id # id)

\* as WithoutFood, but like list.remove: only the first such meal goes
WithoutFood_FirstOnly(meals, name) ==
    LET hits == {i \in 1..Len(meals) : meals[i].food = name}
    IN  IF hits = {} THEN meals
        ELSE LET k == CHOOSE i \in hits : \A j \in hits : i <= j
             IN  SubSeq(meals, 1, k - 1) \o SubSeq(meals, k + 1, Len(meals))

\* as WithoutFood, but without the cascade
WithoutFood_NoCascade(meals, name) == meals

\* [m for m in meals if m["food"] != name]
WithoutFood(meals, name) == SelectSeq(meals, LAMBDA m : m.food # name)

\* foods.pop(name, None)
Pop(f, name) == [k \in (DOMAIN f) \ {name} |-> f[k]]

\* foods[name] = v
Put(f, name, v) == [k \in (DOMAIN f) \cup {name} |-> IF k = name THEN v ELSE f[k]]

\* [m for m in meals if m.get("date") == d]
MealsOn(meals, d) == SelectSeq(meals, LAMBDA m : m.date = d)

RECURSIVE SumCalories(_)
SumCalories(rows) ==
    IF rows = <<>> THEN 0 ELSE Head(rows).calories + SumCalories(Tail(rows))

RECURSIVE SumProtein(_)
SumProtein(rows) ==
    IF rows = <<>> THEN 0 ELSE Head(rows).protein + SumProtein(Tail(rows))

\* str.strip() of the entry text
RECURSIVE Strip(_)
Strip(s) ==
    IF s = <<>> THEN s
    ELSE IF Head(s) = " " THEN Strip(Tail(s))
    ELSE IF s[Len(s)] = " " THEN Strip(SubSeq(s, 1, Len(s) - 1))
    ELSE s

\* self.meal_date.get().strip() or today_str()
EntryDate(entry) == IF Strip(entry) = <<>> THEN today_str ELSE Strip(entry)

\* simpledialog.askstring(...) or today_str()
DialogDate(text) == IF text = <<>> THEN today_str ELSE text

\* what load_meals / load_meals_for_date shows for an accepted date: the
\* rows of the tree (by id) and the two totals of the label
Listing(meals, date) ==
    LET rows == MealsOn(meals, date)
    IN  [date |-> date,
         rows |-> [i \in 1..Len(rows) |-> rows[i].id],
         cal |-> SumCalories(rows),
         pro |-> SumProtein(rows)]

\* the ids of the rows of `before` that the reloaded tree no longer shows
DroppedRows(before, after) ==
    LET ids == SelectSeq(before, LAMBDA m : \A i \in 1..Len(after) : after[i].id # m.id)
    IN  [i \in 1..Len(ids) |-> ids[i].id]

\* the save_json(NUTR_FILE, nutrition) that ends load_meals
LoadMealsSaves(entry, m) ==
    IF DateAccepted(EntryDate(entry)) THEN <<Save(NUTR_FILE, m)>> ELSE <<>>

\* as TrendDays, but without max(1, ...)
TrendDays_NoClamp(n) == IF n = 0 THEN DEFAULT_TREND ELSE n

\* max(1, int(self.trend_var.get() or 14))
TrendDays(n) ==
    LET v == IF n = 0 THEN DEFAULT_TREND ELSE n
    IN  IF v > 1 THEN v ELSE 1

\* as Trend, but a day without meals gets no bucket
Trend_OmitsEmptyDays(days, today, meals) ==
    SelectSeq([i \in 1..days |->
                  LET d == DayStr(today - (days - i))
                  IN  [date |-> d,
                       cal |-> SumCalories(SelectSeq(meals, LAMBDA m : m.date = d)),
                       pro |-> SumProtein(SelectSeq(meals, LAMBDA m : m.date = d))]],
              LAMBDA b : \E k \in 1..Len(meals) : meals[k].date = b.date)

\* as Trend, but with one more bucket at the old end: a report over the days
\* that prune_data retains
Trend_OverRetention(days, today, meals) ==
    [i \in 1..(days + 1) |->
        LET d     == DayStr(today - (days + 1 - i))
            daily == MealsOn(meals, d)
        IN  [date |-> d, cal |-> SumCalories(daily), pro |-> SumProtein(daily)]]

\* dates, cal_vals and pro_vals of refresh_reports, oldest day first
Trend(days, today, meals) ==
    [i \in 1..days |->
        LET d     == DayStr(today - (days - i))
            daily == MealsOn(meals, d)
        IN  [date |-> d, cal |-> SumCalories(daily), pro |-> SumProtein(daily)]]

\* the sort key (s.get("date", ""), s.get("created", "")) of refresh_sessions,
\* compared as Python compares tuples of strings
SessionKeyLess(a, b) ==
    \/ StrLess(a.date, b.date)
    \/ a.date = b.date /\ a.created < b.created

\* sorted(sessions, key = ..., reverse = True): the greatest key first,
\* sessions of equal keys in the order of the list
RECURSIVE SortedSessions(_)
SortedSessions(w) ==
    IF w = <<>> THEN <<>>
    ELSE LET i == CHOOSE k \in 1..Len(w) :
                     /\ \A j \in 1..Len(w) : ~SessionKeyLess(w[k], w[j])
                     /\ \A j \in 1..(k - 1) : SessionKeyLess(w[j], w[k])
         IN  <<w[i]>> \o SortedSessions(SubSeq(w, 1, i - 1) \o SubSeq(w, i + 1, Len(w)))

\* refresh_sessions(): the rows of the session listbox, top to bottom, each
\* with the date and the name of its label and the id of the session it is
SessionRows(w) ==
    LET sorted == SortedSessions(w)
    IN  [k \in 1..Len(sorted) |->
            [id |-> sorted[k].id, date |-> sorted[k].date, name |-> sorted[k].name]]

\* the position in workouts["sessions"] of the first session of that id
SessionIndex(w, sid) ==
    CHOOSE k \in 1..Len(w) : w[k].id = sid /\ \A j \in 1..(k - 1) : w[j].id # sid

\* sess.setdefault("exercises", []).append(ex) on the session at position k
WithExercise(w, k, ex) == [w EXCEPT ![k].exercises = Append(@, ex)]

\* the rows of the exercise tree for a session, top to bottom
ExerciseRows(s) == s.exercises

(***************************************************************************)
(* fitness_tracker.py: retention.                                          *)
(***************************************************************************)
\* [s for s in sessions if s.get("date", "") >= cutoff_w]
KeepSessions(w, today) ==
    SelectSeq(w, LAMBDA s : StrGeq(s.date, DayStr(today - SESSION_KEEP_DAYS)))

\* as KeepMeals, but removing from the list while iterating over it: the
\* meal that follows a removed one is skipped
RECURSIVE KeepMeals_Skipping(_, _)
KeepMeals_Skipping(n, today) ==
    IF n = <<>> THEN <<>>
    ELSE IF StrGeq(Head(n).date, DayStr(today - MEAL_KEEP_DAYS))
    THEN <<Head(n)>> \o KeepMeals_Skipping(Tail(n), today)
    ELSE IF Len(n) = 1 THEN <<>>
    ELSE <<n[2]>> \o KeepMeals_Skipping(SubSeq(n, 3, Len(n)), today)

\* [m for m in meals if m.get("date", "") >= cutoff_n]
KeepMeals(n, today) ==
    SelectSeq(n, LAMBDA m : StrGeq(m.date, DayStr(today - MEAL_KEEP_DAYS)))

\* the collections after the two filters of prune_data
Pruned(m, today) ==
    [w |-> KeepSessions(m.w, today), n |-> KeepMeals(m.n, today), f |-> m.f]

\* prune_data() without its save of workouts.json
PruneSaves_NoWorkouts(m, today) ==
    LET kept == Pruned(m, today)
    IN  <<Save(NUTR_FILE, kept), Save(FOODS_FILE, kept)>>

\* prune_data(): the filters, then the three saves
PruneSaves(m, today) ==
    LET kept == Pruned(m, today)
    IN  <<Save(WORKOUT_FILE, kept), Save(NUTR_FILE, kept), Save(FOODS_FILE, kept)>>

\* the line refresh_foods shows for a food, and line.split(" — ")[0]
FoodLine(name, d) == name \o <<SEP, "kcal">>

SplitName(line) ==
    LET i == CHOOSE k \in 1..Len(line) :
                 line[k] = SEP /\ \A j \in 1..(k - 1) : line[j] # SEP
    IN  SubSeq(line, 1, i - 1)

\* What the last handler was and what it showed.  res is "ok" (it ran to its
\* end), "ioerror" (a save_json raised) or the reason of its early return;
\* arg is the food name typed into log_meal / add_meal (asked for once the
\* date is accepted), the selected id and the grams typed into edit_meal, the
\* food selected for edit_food, or
\* the number of days asked of refresh_reports; out is the listing or the
\* report it drew, the rows of the session listbox it refreshed, or
\* the ids of the meal rows a food deletion dropped.
Result(op, res, arg, out) == [op |-> op, res |-> res, arg |-> arg, out |-> out]

\* a handler that returns before it changes or saves anything
Reject(op, why, arg, fault) ==
    /\ fault.at = 0
    /\ UNCHANGED <<workouts, nutrition, foods, disk, next_id>>
    /\ last' = Result(op, why, arg, <<>>)

\* a handler that changes the collections and saves
Finish(op, arg, out, writes, mfinal, fault) ==
    /\ Commit(writes, mfinal, fault)
    /\ last' = IF Completed(writes, fault)
               THEN Result(op, "ok", arg, out)
               ELSE Result(op, "ioerror", arg, <<>>)

(***************************************************************************)
(* fitness_tracker.py: the handlers of FitSimple.                          *)
(***************************************************************************)
Simple_add_session(name, text, fault) ==
    /\ prog = "simple"
    /\ UNCHANGED <<prog, now>>
    /\ LET date == DialogDate(text)
           m1   == [Mem EXCEPT !.w = Append(@, NewSession(name, date))]
       IN  IF name = ""
           THEN Reject("add_session", "no name", <<>>, fault)
           ELSE IF ~DateAccepted(date)
           THEN Reject("add_session", "invalid date", <<>>, fault)
           ELSE /\ Len(workouts) < MaxSessions
                /\ next_id <= MaxId
                /\ next_id' = next_id + 1
                /\ Finish("add_session", <<>>, SessionRows(Pruned(m1, now).w),
                          <<Save(WORKOUT_FILE, m1)>> \o PruneSaves(m1, now),
                          Pruned(m1, now), fault)

Simple_delete_session(i, fault) ==
    /\ prog = "simple"
    /\ UNCHANGED <<prog, now, next_id>>
    /\ i \in 1..Len(workouts)
    /\ LET m1 == [Mem EXCEPT !.w = WithoutId(@, workouts[i].id)]
       IN  Finish("delete_session", <<>>, SessionRows(m1.w),
                  <<Save(WORKOUT_FILE, m1)>>, m1, fault)

\* i is the position in workouts["sessions"] of the session selected in the
\* listbox (get_selected_session)
Simple_add_ex(i, name, sets, reps, weight, fault) ==
    /\ prog = "simple"
    /\ UNCHANGED <<prog, now>>
    /\ i \in 1..Len(workouts)
    /\ LET sid == workouts[i].id
           ex  == [id |-> make_id, name |-> name, sets |-> sets, reps |-> reps,
                   weight |-> RoundDiv(weight, 10)]
           k   == SessionIndex(workouts, sid)
           m1  == [Mem EXCEPT !.w = WithExercise(@, k, ex)]
       IN  IF name = ""
           THEN Reject("add_ex", "no name", <<sid>>, fault)
           ELSE /\ next_id <= MaxWorkoutId
                /\ next_id' = next_id + 1
                /\ Finish("add_ex", <<sid, ex.id>>, ExerciseRows(m1.w[k]),
                          <<Save(WORKOUT_FILE, m1)>>, m1, fault)

\* the exercises of a session that del_ex keeps: those that differ from the
\* selected row in the name, the sets or the reps
NotMatching(exercises, vals) ==
    SelectSeq(exercises,
              LAMBDA e : ~(e.name = vals[1] /\ e.sets = vals[2] /\ e.reps = vals[3]))

\* j is the position of the row selected in the exercise tree
Simple_del_ex(i, j, fault) ==
    /\ prog = "simple"
    /\ UNCHANGED <<prog, now, next_id>>
    /\ i \in 1..Len(workouts)
    /\ j \in 1..Len(workouts[i].exercises)
    /\ LET sid  == workouts[i].id
           row  == ExerciseRows(workouts[i])[j]
           vals == <<row.name, row.sets, row.reps, row.weight>>
           k    == SessionIndex(workouts, sid)
           m1   == [Mem EXCEPT !.w[k].exercises = NotMatching(@, vals)]
       IN  Finish("del_ex", <<sid, row.id>>, ExerciseRows(m1.w[k]),
                  <<Save(WORKOUT_FILE, m1)>>, m1, fault)

Simple_add_food(name, v, fault) ==
    /\ prog = "simple"
    /\ UNCHANGED <<prog, now, next_id>>
    /\ IF name = <<>>
       THEN Reject("add_food", "no name", <<>>, fault)
       ELSE IF name \in DOMAIN foods
       THEN Reject("add_food", "exists", <<>>, fault)
       ELSE LET m1 == [Mem EXCEPT !.f = Put(@, name, v)]
            IN  Finish("add_food", <<>>, <<>>,
                       <<Save(FOODS_FILE, m1)>>, m1, fault)

\* sel is the food whose line is selected in the list
Simple_del_food(sel, entry, fault) ==
    /\ prog = "simple"
    /\ UNCHANGED <<prog, now, next_id>>
    /\ sel \in DOMAIN foods
    /\ LET name == SplitName(FoodLine(sel, foods[sel]))
           m1   == [Mem EXCEPT !.f = Pop(@, name), !.n = WithoutFood(@, name)]
       IN  Finish("del_food", <<>>, DroppedRows(nutrition, m1.n),
                  <<Save(FOODS_FILE, m1), Save(NUTR_FILE, m1)>>
                      \o LoadMealsSaves(entry, m1),
                  m1, fault)

Simple_load_meals(entry, fault) ==
    /\ prog = "simple"
    /\ UNCHANGED <<prog, now, next_id>>
    /\ IF ~DateAccepted(EntryDate(entry))
       THEN Reject("load_meals", "invalid date", <<>>, fault)
       ELSE Finish("load_meals", <<>>,
                   Listing(nutrition, EntryDate(entry)),
                   LoadMealsSaves(entry, Mem), Mem, fault)

\* as Simple_log_meal, but without the test of the typed name: an unknown
\* food counts as 0 kcal / 0 g
Simple_log_meal_Unchecked(entry, choice, grams, fault) ==
    /\ prog = "simple"
    /\ UNCHANGED <<prog, now>>
    /\ LET date == EntryDate(entry)
           f    == IF choice \in DOMAIN foods THEN foods[choice]
                   ELSE [cal |-> 0, prot |-> 0]
           m1   == [Mem EXCEPT !.n = Append(@, NewMeal(date, choice, grams, f))]
           m2   == Pruned(m1, now)
       IN  IF DOMAIN foods = {}
           THEN Reject("log_meal", "no foods", <<>>, fault)
           ELSE IF ~DateAccepted(date)
           THEN Reject("log_meal", "invalid date", <<>>, fault)
           ELSE /\ Len(nutrition) < MaxMeals
                /\ next_id <= MaxId
                /\ next_id' = next_id + 1
                /\ Finish("log_meal", <<choice>>, Listing(m2.n, date),
                          <<Save(NUTR_FILE, m1)>> \o PruneSaves(m1, now)
                              \o LoadMealsSaves(entry, m2),
                          m2, fault)

Simple_log_meal(entry, choice, grams, fault) ==
    /\ prog = "simple"
    /\ UNCHANGED <<prog, now>>
    /\ LET date == EntryDate(entry)
           m1   == [Mem EXCEPT !.n = Append(@, NewMeal(date, choice, grams, foods[choice]))]
           m2   == Pruned(m1, now)
       IN  IF DOMAIN foods = {}
           THEN Reject("log_meal", "no foods", <<>>, fault)
           ELSE IF ~DateAccepted(date)
           THEN Reject("log_meal", "invalid date", <<>>, fault)
           ELSE IF choice = <<>> \/ choice \notin DOMAIN foods
           THEN Reject("log_meal", "food not found", <<choice>>, fault)
           ELSE /\ Len(nutrition) < MaxMeals
                /\ next_id <= MaxId
                /\ next_id' = next_id + 1
                /\ Finish("log_meal", <<choice>>, Listing(m2.n, date),
                          <<Save(NUTR_FILE, m1)>> \o PruneSaves(m1, now)
                              \o LoadMealsSaves(entry, m2),
                          m2, fault)

\* mid is the id of the row selected in the meals tree
Simple_del_meal(mid, entry, fault) ==
    /\ prog = "simple"
    /\ UNCHANGED <<prog, now, next_id>>
    /\ LET m1 == [Mem EXCEPT !.n = WithoutId(@, mid)]
       IN  Finish("del_meal", <<>>, <<>>,
                  <<Save(NUTR_FILE, m1)>> \o LoadMealsSaves(entry, m1), m1, fault)

Simple_refresh_reports ==
    /\ prog = "simple"
    /\ UNCHANGED <<prog, now, next_id, workouts, nutrition, foods, disk>>
    /\ last' = Result("refresh_reports", "ok", <<SIMPLE_REPORT_DAYS>>,
                      Trend(SIMPLE_REPORT_DAYS, now, nutrition))

\* the module is run again: the three loads, prune_data(), then FitSimple()
\* whose build_*_tab calls end in load_meals() and refresh_reports()
Simple_start(fault) ==
    /\ prog = "simple"
    /\ UNCHANGED <<prog, now, next_id>>
    /\ LET m0 == [w |-> Get(load_json(disk, WORKOUT_FILE), "sessions", <<>>),
                  n |-> Get(load_json(disk, NUTR_FILE), "meals", <<>>),
                  f |-> load_json(disk, FOODS_FILE)]
           m1 == Pruned(m0, now)
       IN  Finish("start", <<>>, Trend(SIMPLE_REPORT_DAYS, now, m1.n),
                  PruneSaves(m0, now) \o LoadMealsSaves(BLANK, m1), m1, fault)

\* midnight passes
Tick ==
    /\ now < StartDay + MaxTicks
    /\ now' = now + 1
    /\ last' = Result("tick", "ok", <<>>, <<>>)
    /\ UNCHANGED <<prog, next_id, workouts, nutrition, foods, disk>>

(***************************************************************************)
(* fittracker_modern.py: the handlers of FitTrackerModern.                 *)
(***************************************************************************)
Modern_add_session(name, text, fault) ==
    /\ prog = "modern"
    /\ UNCHANGED <<prog, now>>
    /\ LET date == DialogDate(text)
           m1   == [Mem EXCEPT !.w = Append(@, NewSession(name, date))]
       IN  IF ~DateAccepted(date)
           THEN Reject("add_session", "invalid date", <<>>, fault)
           ELSE /\ Len(workouts) < MaxSessions
                /\ next_id <= MaxId
                /\ next_id' = next_id + 1
                /\ Finish("add_session", <<>>, SessionRows(m1.w),
                          <<Save(WORKOUT_FILE, m1)>>, m1, fault)

\* workouts["sessions"].pop(idx)
Modern_delete_session(i, fault) ==
    /\ prog = "modern"
    /\ UNCHANGED <<prog, now, next_id>>
    /\ i \in 1..Len(workouts)
    /\ LET m1 == [Mem EXCEPT !.w = SubSeq(@, 1, i - 1) \o SubSeq(@, i + 1, Len(@))]
       IN  Finish("delete_session", <<>>, SessionRows(m1.w),
                  <<Save(WORKOUT_FILE, m1)>>, m1, fault)

\* i is the position in workouts["sessions"] that
\* get_selected_session_index returns for the row selected in the listbox
Modern_edit_session(i, new_name, new_date, fault) ==
    /\ prog = "modern"
    /\ UNCHANGED <<prog, now, next_id>>
    /\ i \in 1..Len(workouts)
    /\ LET named   == IF new_name # ""
                      THEN [workouts EXCEPT ![i].name = new_name] ELSE workouts
           invalid == new_date # <<>> /\ ~DateAccepted(new_date)
           dated   == IF new_date # <<>> /\ ~invalid
                      THEN [named EXCEPT ![i].date = new_date] ELSE named
           m1      == [Mem EXCEPT !.w = dated]
           writes  == <<Save(WORKOUT_FILE, m1)>>
       IN  /\ Commit(writes, m1, fault)
           /\ last' = IF ~Completed(writes, fault)
                      THEN Result("edit_session", "ioerror", <<workouts[i].id>>, <<>>)
                      ELSE Result("edit_session",
                                  IF invalid THEN "invalid date" ELSE "ok",
                                  <<workouts[i].id>>, SessionRows(m1.w))

Modern_add_exercise(i, name, weight, reps, fault) ==
    /\ prog = "modern"
    /\ UNCHANGED <<prog, now>>
    /\ i \in 1..Len(workouts)
    /\ LET sid == workouts[i].id
           ex  == [id |-> make_id, name |-> name, weight |-> RoundDiv(weight, 10),
                   reps |-> reps]
           m1  == [Mem EXCEPT !.w = WithExercise(@, i, ex)]
       IN  IF name = ""
           THEN Reject("add_exercise", "no name", <<sid>>, fault)
           ELSE /\ next_id <= MaxWorkoutId
                /\ next_id' = next_id + 1
                /\ Finish("add_exercise", <<sid, ex.id>>, ExerciseRows(m1.w[i]),
                          <<Save(WORKOUT_FILE, m1)>>, m1, fault)

\* the exercise after the three dialogs of edit_exercise
EditedExercise(ex, new_name, w, r) ==
    [ex EXCEPT !.name = IF new_name # "" THEN new_name ELSE @,
               !.weight = IF w.typed = "number" THEN RoundDiv(w.val, 10) ELSE @,
               !.reps = IF r.typed = "number" THEN r.val ELSE @]

\* ex_id is the iid of the row selected in the exercise tree
Modern_edit_exercise(i, ex_id, new_name, w, r, fault) ==
    /\ prog = "modern"
    /\ UNCHANGED <<prog, now, next_id>>
    /\ i \in 1..Len(workouts)
    /\ LET sid   == workouts[i].id
           found == {j \in 1..Len(workouts[i].exercises) :
                        workouts[i].exercises[j].id = ex_id}
       IN  IF found = {}
           THEN Reject("edit_exercise", "not found", <<sid, ex_id>>, fault)
           ELSE LET j  == CHOOSE x \in found : \A y \in found : x <= y
                    m1 == [Mem EXCEPT !.w[i].exercises[j] =
                                         EditedExercise(@, new_name, w, r)]
                IN  Finish("edit_exercise", <<sid, ex_id>>, ExerciseRows(m1.w[i]),
                           <<Save(WORKOUT_FILE, m1)>>, m1, fault)

\* [e for e in session.get("exercises", []) if e["id"] != ex_id]
Modern_delete_exercise(i, ex_id, fault) ==
    /\ prog = "modern"
    /\ UNCHANGED <<prog, now, next_id>>
    /\ i \in 1..Len(workouts)
    /\ ex_id \in {workouts[i].exercises[j].id : j \in 1..Len(workouts[i].exercises)}
    /\ LET sid == workouts[i].id
           m1  == [Mem EXCEPT !.w[i].exercises = WithoutId(@, ex_id)]
       IN  Finish("delete_exercise", <<sid, ex_id>>, ExerciseRows(m1.w[i]),
                  <<Save(WORKOUT_FILE, m1)>>, m1, fault)

Modern_add_food(name, v, fault) ==
    /\ prog = "modern"
    /\ UNCHANGED <<prog, now, next_id>>
    /\ IF name = <<>>
       THEN Reject("add_food", "no name", <<>>, fault)
       ELSE IF name \in DOMAIN foods
       THEN Reject("add_food", "exists", <<>>, fault)
       ELSE LET m1 == [Mem EXCEPT !.f = Put(@, name, v)]
            IN  Finish("add_food", <<>>, <<>>,
                       <<Save(NUTR_FILE, m1)>>, m1, fault)

\* nutrition["foods"][name] = {...} with every stored meal of that food
\* recomputed from the new values
EditedFoods_Recomputes(m, sel, v) ==
    [w |-> m.w,
     n |-> [i \in 1..Len(m.n) |->
               IF m.n[i].food = sel
               THEN [m.n[i] EXCEPT
                        !.calories = RoundDiv(v.cal * m.n[i].grams, 10000),
                        !.protein = RoundDiv(v.prot * m.n[i].grams, 10000)]
               ELSE m.n[i]],
     f |-> Put(m.f, sel, v)]

\* nutrition["foods"][name] = {...}
EditedFoods(m, sel, v) == [m EXCEPT !.f = Put(@, sel, v)]

\* sel is the iid of the row selected in the foods tree
Modern_edit_food(sel, v, entry, fault) ==
    /\ prog = "modern"
    /\ UNCHANGED <<prog, now, next_id>>
    /\ sel \in DOMAIN foods
    /\ LET m1 == EditedFoods(Mem, sel, v)
       IN  Finish("edit_food", <<sel>>, <<>>,
                  <<Save(NUTR_FILE, m1)>> \o LoadMealsSaves(entry, m1), m1, fault)

Modern_delete_food(sel, entry, fault) ==
    /\ prog = "modern"
    /\ UNCHANGED <<prog, now, next_id>>
    /\ sel \in DOMAIN foods
    /\ LET m1 == [Mem EXCEPT !.f = Pop(@, sel), !.n = WithoutFood(@, sel)]
       IN  Finish("delete_food", <<>>, DroppedRows(nutrition, m1.n),
                  <<Save(NUTR_FILE, m1)>> \o LoadMealsSaves(entry, m1), m1, fault)

Modern_load_meals_for_date(entry, fault) ==
    /\ prog = "modern"
    /\ UNCHANGED <<prog, now, next_id>>
    /\ IF ~DateAccepted(EntryDate(entry))
       THEN Reject("load_meals", "invalid date", <<>>, fault)
       ELSE Finish("load_meals", <<>>,
                   Listing(nutrition, EntryDate(entry)),
                   LoadMealsSaves(entry, Mem), Mem, fault)

Modern_add_meal(entry, choice, grams, fault) ==
    /\ prog = "modern"
    /\ UNCHANGED <<prog, now>>
    /\ LET date == EntryDate(entry)
           m1   == [Mem EXCEPT !.n = Append(@, NewMeal(date, choice, grams, foods[choice]))]
       IN  IF DOMAIN foods = {}
           THEN Reject("log_meal", "no foods", <<>>, fault)
           ELSE IF ~DateAccepted(date)
           THEN Reject("log_meal", "invalid date", <<>>, fault)
           ELSE IF choice = <<>> \/ choice \notin DOMAIN foods
           THEN Reject("log_meal", "food not found", <<choice>>, fault)
           ELSE /\ Len(nutrition) < MaxMeals
                /\ next_id <= MaxId
                /\ next_id' = next_id + 1
                /\ Finish("log_meal", <<choice>>, Listing(m1.n, date),
                          <<Save(NUTR_FILE, m1)>> \o LoadMealsSaves(entry, m1),
                          m1, fault)

\* as EditedMeal, but the derived fields are left as they were
EditedMeal_GramsOnly(meal, grams, f) == [meal EXCEPT !.grams = StoredGrams(grams)]

\* the meal dict after edit_meal wrote grams, calories and protein into it
EditedMeal(meal, grams, f) ==
    [meal EXCEPT !.grams = StoredGrams(grams),
                 !.calories = Derived(f.cal, grams),
                 !.protein = Derived(f.prot, grams)]

\* mid is the iid of the row selected in the meals tree; the row of a meal
\* deleted since stays in the tree when load_meals_for_date() returned on an
\* invalid date before clearing it
Modern_edit_meal(mid, grams, entry, fault) ==
    /\ prog = "modern"
    /\ UNCHANGED <<prog, now, next_id>>
    /\ LET hits == {i \in 1..Len(nutrition) : nutrition[i].id = mid}
           i    == CHOOSE k \in hits : \A j \in hits : k <= j
           m1   == [Mem EXCEPT !.n[i] = EditedMeal(@, grams, foods[nutrition[i].food])]
       IN  IF hits = {}
           THEN Reject("edit_meal", "not found", <<mid>>, fault)
           ELSE IF nutrition[i].food \notin DOMAIN foods
           THEN Reject("edit_meal", "food missing", <<mid>>, fault)
           ELSE Finish("edit_meal", <<mid, grams>>, <<>>,
                       <<Save(NUTR_FILE, m1)>> \o LoadMealsSaves(entry, m1), m1, fault)

Modern_delete_meal(mid, entry, fault) ==
    /\ prog = "modern"
    /\ UNCHANGED <<prog, now, next_id>>
    /\ LET m1 == [Mem EXCEPT !.n = WithoutId(@, mid)]
       IN  Finish("del_meal", <<>>, <<>>,
                  <<Save(NUTR_FILE, m1)>> \o LoadMealsSaves(entry, m1), m1, fault)

\* n is the number in the "last N days" entry
Modern_refresh_reports(n) ==
    /\ prog = "modern"
    /\ UNCHANGED <<prog, now, next_id, workouts, nutrition, foods, disk>>
    /\ last' = Result("refresh_reports", "ok", <<n>>,
                      Trend(TrendDays(n), now, nutrition))

\* the module is run again: the two loads, then FitTrackerModern() whose
\* build_*_tab calls end in load_meals_for_date() and refresh_reports()
Modern_start(fault) ==
    /\ prog = "modern"
    /\ UNCHANGED <<prog, now, next_id>>
    /\ LET wdoc == load_json(disk, WORKOUT_FILE)
           ndoc == load_json(disk, NUTR_FILE)
           m0   == [w |-> wdoc.sessions, n |-> ndoc.meals, f |-> ndoc.foods]
       IN  IF \/ "sessions" \notin DOMAIN wdoc
              \/ "foods" \notin DOMAIN ndoc
              \/ "meals" \notin DOMAIN ndoc
           THEN \* workouts["sessions"] in refresh_sessions, or nutrition["foods"]
                \* in refresh_foods, raises KeyError while the tabs are built:
                \* the window never opens and nothing was saved
                /\ fault.at = 0
                /\ workouts' = <<>>
                /\ nutrition' = <<>>
                /\ foods' = NoFoods
                /\ disk' = disk
                /\ last' = Result("start", "crash", <<>>, <<>>)
           ELSE Finish("start", <<>>, Trend(TrendDays(DEFAULT_TREND), now, m0.n),
                       LoadMealsSaves(BLANK, m0), m0, fault)

(***************************************************************************)
(* The state machine.                                                      *)
(***************************************************************************)
StoredIds == {nutrition[i].id : i \in 1..Len(nutrition)}

\* the ids make_id() has returned so far
MadeIds == 1..(next_id - 1)

\* the first run, in a directory without data files
Init ==
    /\ prog \in {"simple", "modern"}
    /\ now = StartDay
    /\ next_id = 1
    /\ workouts = <<>>
    /\ nutrition = <<>>
    /\ foods = NoFoods
    /\ disk = [file \in Files |->
                 IF prog = "simple" \/ file = NUTR_FILE
                 THEN Stored(Default(file)) ELSE Missing(file)]
    /\ last = Result("start", "ok", <<>>,
                     Trend(IF prog = "simple" THEN SIMPLE_REPORT_DAYS
                           ELSE TrendDays(DEFAULT_TREND), now, <<>>))

\* a food is deleted; the saves fail as `fault` says
DeleteFood(fault) ==
    \/ \E sel \in FoodNames, entry \in ReloadInputs(fault) : Simple_del_food(sel, entry, fault)
    \/ \E sel \in FoodNames, entry \in ReloadInputs(fault) : Modern_delete_food(sel, entry, fault)

\* the other handlers that add and delete foods and meals, and the restart
StoreHandler(fault) ==
    \/ \E name \in FoodNames, v \in FoodValueInputs : Simple_add_food(name, v, fault)
    \/ \E entry \in MealDateInputs, choice \in FoodNames, grams \in GramInputs :
          Simple_log_meal(entry, choice, grams, fault)
    \/ \E mid \in StoredIds, entry \in ReloadInputs(fault) : Simple_del_meal(mid, entry, fault)
    \/ Simple_start(fault)
    \/ \E name \in FoodNames, v \in FoodValueInputs : Modern_add_food(name, v, fault)
    \/ \E entry \in MealDateInputs, choice \in FoodNames, grams \in GramInputs :
          Modern_add_meal(entry, choice, grams, fault)
    \/ \E mid \in StoredIds, entry \in ReloadInputs(fault) : Modern_delete_meal(mid, entry, fault)
    \/ Modern_start(fault)

\* the handlers of sessions, of the listing and of the edits
OtherHandler(fault) ==
    \/ \E name \in NameInputs, text \in SessionDateInputs :
          Simple_add_session(name, text, fault)
    \/ \E i \in 1..MaxSessions : Simple_delete_session(i, fault)
    \/ \E entry \in MealDateInputs : Simple_load_meals(entry, fault)
    \/ \E name \in NameInputs \ {""}, text \in SessionDateInputs :
          Modern_add_session(name, text, fault)
    \/ \E i \in 1..MaxSessions : Modern_delete_session(i, fault)
    \/ \E sel \in FoodNames, v \in EditFoodValueInputs, entry \in ReloadInputs(fault) :
          Modern_edit_food(sel, v, entry, fault)
    \/ \E entry \in MealDateInputs : Modern_load_meals_for_date(entry, fault)
    \/ \E mid \in MadeIds, grams \in EditGramInputs, entry \in ReloadInputs(fault) :
          Modern_edit_meal(mid, grams, entry, fault)

Handler(fault) == DeleteFood(fault) \/ StoreHandler(fault) \/ OtherHandler(fault)

Reports ==
    \/ Simple_refresh_reports
    \/ \E n \in TrendInputs : Modern_refresh_reports(n)

\* every save_json succeeds
Next == Handler(NoFault) \/ Reports \/ Tick

Spec == Init /\ [][Next]_vars

\* a save_json call of the handler raises OSError
Faults == [at : 1..MaxWrites, how : {"open", "write"}]

\* foods and meals are added and deleted and the program is restarted, and
\* a save of a food deletion may fail
NextFault ==
    \/ StoreHandler(NoFault)
    \/ DeleteFood(NoFault)
    \/ \E fault \in Faults : DeleteFood(fault)

SpecFault == Init /\ [][NextFault]_vars

\* meals are logged and listed under today's date as it may be typed, and
\* the reports are drawn
NextDates ==
    \/ \E name \in FoodNames, v \in FoodValueInputs : Simple_add_food(name, v, NoFault)
    \/ \E entry \in TodayInputs, choice \in FoodNames, grams \in GramInputs :
          Simple_log_meal(entry, choice, grams, NoFault)
    \/ \E entry \in TodayInputs : Simple_load_meals(entry, NoFault)
    \/ \E name \in FoodNames, v \in FoodValueInputs : Modern_add_food(name, v, NoFault)
    \/ \E entry \in TodayInputs, choice \in FoodNames, grams \in GramInputs :
          Modern_add_meal(entry, choice, grams, NoFault)
    \/ \E entry \in TodayInputs : Modern_load_meals_for_date(entry, NoFault)
    \/ Reports

SpecDates == Init /\ [][NextDates]_vars

\* meals are logged and edited with grams typed to two or to three decimals,
\* and the foods are edited
NextGrams ==
    \/ \E name \in FoodNames, v \in FoodValueInputs : Simple_add_food(name, v, NoFault)
    \/ \E choice \in FoodNames, grams \in GramInputs \cup FineGramInputs :
          Simple_log_meal(BLANK, choice, grams, NoFault)
    \/ \E name \in FoodNames, v \in FoodValueInputs : Modern_add_food(name, v, NoFault)
    \/ \E sel \in FoodNames, v \in EditFoodValueInputs :
          Modern_edit_food(sel, v, BLANK, NoFault)
    \/ \E choice \in FoodNames, grams \in GramInputs \cup FineGramInputs :
          Modern_add_meal(BLANK, choice, grams, NoFault)
    \/ \E mid \in StoredIds, grams \in EditGramInputs \cup FineGramInputs :
          Modern_edit_meal(mid, grams, BLANK, NoFault)

SpecGrams == Init /\ [][NextGrams]_vars

\* sessions are added, edited and deleted, exercises are added, edited and
\* deleted, meals are logged under today's date or a rejected one, and the
\* program is restarted
NextWorkout ==
    \/ \E name \in NameInputs, text \in {BLANK, BadDate} :
          Simple_add_session(name, text, NoFault)
    \/ \E i \in 1..MaxSessions : Simple_delete_session(i, NoFault)
    \/ \E i \in 1..MaxSessions, name \in ExerciseNames, sets \in SetInputs,
          reps \in RepInputs, weight \in WeightInputs :
          Simple_add_ex(i, name, sets, reps, weight, NoFault)
    \/ \E i \in 1..MaxSessions, j \in 1..MaxWorkoutId : Simple_del_ex(i, j, NoFault)
    \/ \E name \in FoodNames, v \in FoodValueInputs : Simple_add_food(name, v, NoFault)
    \/ \E entry \in {BLANK, BadDate}, choice \in FoodNames, grams \in GramInputs :
          Simple_log_meal(entry, choice, grams, NoFault)
    \/ Simple_start(NoFault)
    \/ \E name \in NameInputs \ {""}, text \in {BLANK, BadDate} :
          Modern_add_session(name, text, NoFault)
    \/ \E i \in 1..MaxSessions, new_name \in EditNameInputs, new_date \in EditDateInputs :
          Modern_edit_session(i, new_name, new_date, NoFault)
    \/ \E i \in 1..MaxSessions : Modern_delete_session(i, NoFault)
    \/ \E i \in 1..MaxSessions, name \in ExerciseNames, weight \in {60000},
          reps \in RepInputs :
          Modern_add_exercise(i, name, weight, reps, NoFault)
    \/ \E i \in 1..MaxSessions, ex_id \in MadeIds, e \in ExerciseEdits :
          Modern_edit_exercise(i, ex_id, e.name, e.w, e.r, NoFault)
    \/ \E i \in 1..MaxSessions, ex_id \in MadeIds : Modern_delete_exercise(i, ex_id, NoFault)
    \/ \E name \in FoodNames, v \in FoodValueInputs : Modern_add_food(name, v, NoFault)
    \/ \E entry \in {BLANK, BadDate}, choice \in FoodNames, grams \in GramInputs :
          Modern_add_meal(entry, choice, grams, NoFault)
    \/ Modern_start(NoFault)

SpecWorkout == Init /\ [][NextWorkout]_vars

\* the documents a data file may hold when the program is started: none, one
\* that json.load rejects, one a program saved, or one without the containers
SavedDocs(p, file) ==
    LET s == [id |-> 1, name |-> "Push", date |-> DayStr(StartDay), created |-> 1,
              exercises |-> <<>>]
        f == [x \in {Rice} |-> [cal |-> 16500, prot |-> 3100]]
    IN  IF file = WORKOUT_FILE THEN {Doc(p, file, [w |-> w, n |-> <<>>, f |-> NoFoods]) :
                                        w \in {<<>>, <<s>>}}
        ELSE {Doc(p, file, [w |-> <<>>, n |-> <<>>, f |-> g]) : g \in {NoFoods, f}}

FoundFiles(p, file) ==
    IF p = "modern" /\ file = FOODS_FILE THEN {Missing(file)}
    ELSE {Missing(file), Corrupt(file)}
            \cup {Stored(doc) : doc \in SavedDocs(p, file)}
            \cup (IF file = FOODS_FILE THEN {} ELSE {Stored(NoContainers)})

\* before the program is started, over whatever the data files hold
InitLoad ==
    /\ prog \in {"simple", "modern"}
    /\ now = StartDay
    /\ next_id = 2
    /\ workouts = <<>>
    /\ nutrition = <<>>
    /\ foods = NoFoods
    /\ \E w \in FoundFiles(prog, WORKOUT_FILE), n \in FoundFiles(prog, NUTR_FILE),
          f \in FoundFiles(prog, FOODS_FILE) :
          disk = [file \in Files |->
                     IF file = WORKOUT_FILE THEN w
                     ELSE IF file = NUTR_FILE THEN n ELSE f]
    /\ last = Result("none", "ok", <<>>, <<>>)

\* the program is started: the files are loaded
NextLoad == Simple_start(NoFault) \/ Modern_start(NoFault)

SpecLoad == InitLoad /\ [][NextLoad]_vars

\* fitness_tracker.py alone: meals are logged under today's date or under the
\* oldest retained one, days pass, the program is restarted (prune_data, then
\* the report of the same day) and the report is refreshed
InitWindow == Init /\ prog = "simple"

NextWindow ==
    \/ \E name \in FoodNames, v \in FoodValueInputs : Simple_add_food(name, v, NoFault)
    \/ \E entry \in WindowDateInputs, choice \in FoodNames, grams \in GramInputs :
          Simple_log_meal(entry, choice, grams, NoFault)
    \/ Simple_start(NoFault)
    \/ Simple_refresh_reports
    \/ Tick

SpecWindow == InitWindow /\ [][NextWindow]_vars

(***************************************************************************)
(* Vocabulary of the properties.  These are stated on the stored values    *)
(* themselves, not through the operators the handlers are built from.      *)
(***************************************************************************)
Range(seq) == {seq[i] : i \in 1..Len(seq)}

\* the k-th smallest element of a set of positions
Nth(S, k) == CHOOSE i \in S : Cardinality({j \in S : j <= i}) = k

\* `after` is `before` with exactly the elements at the positions `drop`
\* taken out: the others are all there, unmodified and in the same order
IsRemovalOf(after, before, drop) ==
    LET keep == (1..Len(before)) \ drop
    IN  /\ Len(after) = Cardinality(keep)
        /\ \A k \in 1..Len(after) : after[k] = before[Nth(keep, k)]

\* the calendar day a stored date string names is earlier than `day`
DatedBefore(rec, day) == DayOf(rec.date) < day

SimplePruned == prog = "simple" /\ last.res = "ok"
                /\ last.op \in {"start", "add_session", "log_meal"}

DeletedFood == last.res = "ok" /\ last.op \in {"del_food", "delete_food"}

(***************************************************************************)
(* C1.  fitness_tracker.py: right after prune_data() ran at date `now`     *)
(* (at start, at the end of add_session and of log_meal) no stored session *)
(* is dated (as a calendar day) before now - 14 days and no stored meal    *)
(* before now - 7 days.  The code compares the strings, and strptime also  *)
(* accepts 2026-9-1, which compares above every cutoff 2026-1x-..: the     *)
(* statement fails.                                                        *)
(***************************************************************************)
C1_NothingOldAfterPrune ==
    SimplePruned =>
        /\ \A s \in Range(workouts) : ~DatedBefore(s, now - SESSION_KEEP_DAYS)
        /\ \A m \in Range(nutrition) : ~DatedBefore(m, now - MEAL_KEEP_DAYS)

C3_NoDanglingFood == \A m \in Range(nutrition) : m.food \in DOMAIN foods

\* a food and its meals are gone while a meal of the other food is stored
C3_Witness ==
    /\ DeletedFood
    /\ Len(last.out) >= 1
    /\ Cardinality(DOMAIN foods) = 1
    /\ \E m \in Range(nutrition) : m.food \in DOMAIN foods

(***************************************************************************)
(* C4.  A food deletion one of whose save_json calls raises leaves the     *)
(* foods and the meals, in memory and in the files, as they were before    *)
(* the call.  Both programs change the collections in memory before the    *)
(* first save, and fitness_tracker.py writes foods.json and nutrition.json *)
(* one after the other: the statement fails.                               *)
(***************************************************************************)
C4_DeleteFoodAllOrNothing ==
    [][(last'.op \in {"del_food", "delete_food"} /\ last'.res = "ioerror") =>
          /\ foods' = foods
          /\ nutrition' = nutrition
          /\ disk' = disk]_vars

(***************************************************************************)
(* C5.  Logging a meal under a name that is no key of the foods collection *)
(* changes nothing: the meals in memory and on disk, the other collections *)
(* and the id source are as before.                                        *)
(***************************************************************************)
C5_UnknownFoodRejected ==
    [][(last'.op = "log_meal" /\ last'.arg # <<>> /\ last'.arg[1] \notin DOMAIN foods) =>
          UNCHANGED <<workouts, nutrition, foods, disk, next_id>>]_vars

\* a meal was refused for its food name while a food and a meal are stored
C5_Witness ==
    /\ last.op = "log_meal"
    /\ last.res = "food not found"
    /\ last.arg # <<>>
    /\ last.arg[1] \notin DOMAIN foods
    /\ DOMAIN foods # {}
    /\ nutrition # <<>>

(***************************************************************************)
(* C6.  prune at date `now` removes exactly the sessions dated before      *)
(* now - 14 days and exactly the meals dated before now - 7 days, keeps    *)
(* the others as they are and in order, and leaves the foods alone.        *)
(* Stated on the prune_data() of a start, which prunes what was stored.    *)
(* It fails for the reason C1 fails: 2026-9-1 is dated before the cutoff   *)
(* and is kept.                                                            *)
(***************************************************************************)
C6_PruneRemovesExactlyTheOld ==
    [][(prog = "simple" /\ last'.op = "start" /\ last'.res = "ok") =>
          /\ IsRemovalOf(workouts', workouts,
                 {i \in 1..Len(workouts) :
                     DatedBefore(workouts[i], now - SESSION_KEEP_DAYS)})
          /\ IsRemovalOf(nutrition', nutrition,
                 {i \in 1..Len(nutrition) :
                     DatedBefore(nutrition[i], now - MEAL_KEEP_DAYS)})
          /\ foods' = foods]_vars

(***************************************************************************)
(* C7.  From every store state, at a fixed `now`, a second prune_data()    *)
(* changes nothing the first one left: sessions, meals, foods and the      *)
(* three files are the same after two runs as after one.                   *)
(***************************************************************************)
C7_PruneIdempotent ==
    prog = "simple" =>
        LET once == Pruned(Mem, now)
            d1   == DiskAfter(prog, disk, PruneSaves(Mem, now), NoFault)
        IN  /\ Pruned(once, now) = once
            /\ DiskAfter(prog, d1, PruneSaves(once, now), NoFault) = d1

\* a store of two meals from which prune_data() removes one and keeps one
C7_Witness ==
    /\ prog = "simple"
    /\ Len(nutrition) = 2
    /\ Len(Pruned(Mem, now).n) = 1

(***************************************************************************)
(* C8.  A report asked for n >= 1 days has exactly n buckets, dated the    *)
(* consecutive days today-(n-1) .. today, oldest first; a day on which no  *)
(* meal is stored is there with totals 0.                                  *)
(***************************************************************************)
ReportShown == last.op = "refresh_reports" /\ last.res = "ok"

C8_TrendWindow ==
    (ReportShown /\ last.arg[1] >= 1) =>
        /\ Len(last.out) = last.arg[1]
        /\ \A i \in 1..Len(last.out) :
              /\ DateAccepted(last.out[i].date)
              /\ DayOf(last.out[i].date) = now - (last.arg[1] - i)
              /\ (\A m \in Range(nutrition) : m.date # last.out[i].date) =>
                     (last.out[i].cal = 0 /\ last.out[i].pro = 0)

\* a two-day report whose first day has no meal and whose second has one
C8_Witness ==
    /\ ReportShown
    /\ last.arg[1] = 2
    /\ Len(last.out) = 2
    /\ last.out[1].cal = 0
    /\ last.out[2].cal > 0

(***************************************************************************)
(* C9.  The totals of the meal listing for a date, and of every bucket of  *)
(* a report, are the sums of the stored calories and protein of exactly    *)
(* the stored meals of that calendar day (0 when there is none), and a     *)
(* stored meal is counted in at most one bucket of a report.  The code     *)
(* compares the date strings: a meal logged as 2026-11-1 is stored under   *)
(* that string and is left out of the totals of 2026-11-01, so the         *)
(* statement fails.                                                        *)
(***************************************************************************)
RECURSIVE SumAt(_, _, _)
SumAt(meals, S, field) ==
    IF S = {} THEN 0
    ELSE LET i == CHOOSE k \in S : TRUE
         IN  meals[i][field] + SumAt(meals, S \ {i}, field)

TotalOn(d, field) ==
    SumAt(nutrition,
          {i \in 1..Len(nutrition) : DayOf(nutrition[i].date) = DayOf(d)}, field)

C9_TotalsAreSums ==
    /\ (last.res = "ok" /\ last.op \in {"load_meals", "log_meal"}) =>
          /\ last.out.cal = TotalOn(last.out.date, "calories")
          /\ last.out.pro = TotalOn(last.out.date, "protein")
    /\ (last.res = "ok" /\ last.op \in {"refresh_reports", "start"}) =>
          /\ \A i \in 1..Len(last.out) :
                /\ last.out[i].cal = TotalOn(last.out[i].date, "calories")
                /\ last.out[i].pro = TotalOn(last.out[i].date, "protein")
          /\ \A m \in Range(nutrition) :
                Cardinality({i \in 1..Len(last.out) :
                                DayOf(last.out[i].date) = DayOf(m.date)}) <= 1

(***************************************************************************)
(* C10.  As claimed: every n_days <= 0, zero included, is clamped to 1, so *)
(* the report has exactly one bucket, dated today.  This fails for 0.      *)
(***************************************************************************)
C10_NonPositiveClampedToOne ==
    (prog = "modern" /\ ReportShown /\ last.arg[1] <= 0) =>
        /\ Len(last.out) = 1
        /\ DayOf(last.out[1].date) = now

(***************************************************************************)
(* C10, amended.  Every negative n_days is clamped to 1 (one bucket, dated *)
(* today); n_days = 0 is replaced by the default 14 and the report has 14  *)
(* buckets, the last one dated today.                                      *)
(***************************************************************************)
C10_NegativeClampedZeroDefault ==
    (prog = "modern" /\ ReportShown) =>
        /\ last.arg[1] < 0 =>
              (Len(last.out) = 1 /\ DayOf(last.out[1].date) = now)
        /\ last.arg[1] = 0 =>
              (Len(last.out) = DEFAULT_TREND
               /\ DayOf(last.out[DEFAULT_TREND].date) = now)

\* a report asked for a negative number of days, drawn with one bucket
C10_Witness ==
    /\ prog = "modern"
    /\ ReportShown
    /\ last.arg[1] < 0
    /\ Len(last.out) = 1

(***************************************************************************)
(* C11.  edit_meal on a stored meal whose food is stored sets the meal's   *)
(* grams to the typed value and its calories and protein to the values     *)
(* computed from the food's per-100g values of that moment; the meal's id, *)
(* date, time and food, every other meal and the foods are as before.  An  *)
(* edit_meal that finds no meal of the selected id, or whose meal's food   *)
(* is not stored, changes no meal.                                         *)
(***************************************************************************)
C11_EditMealRecomputes ==
    [][last'.op = "edit_meal" =>
          /\ foods' = foods
          /\ IF last'.res = "ok"
             THEN /\ Len(nutrition') = Len(nutrition)
                  /\ \E i \in 1..Len(nutrition) : nutrition[i].id = last'.arg[1]
                  /\ \A i \in 1..Len(nutrition) :
                        IF nutrition[i].id = last'.arg[1]
                        THEN /\ nutrition[i].food \in DOMAIN foods
                             /\ nutrition'[i] =
                                   [id |-> nutrition[i].id,
                                    date |-> nutrition[i].date,
                                    time |-> nutrition[i].time,
                                    food |-> nutrition[i].food,
                                    grams |-> StoredGrams(last'.arg[2]),
                                    calories |-> Derived(foods[nutrition[i].food].cal,
                                                         last'.arg[2]),
                                    protein |-> Derived(foods[nutrition[i].food].prot,
                                                        last'.arg[2])]
                        ELSE nutrition'[i] = nutrition[i]
             ELSE /\ nutrition' = nutrition
                  /\ (\A i \in 1..Len(nutrition) : nutrition[i].id # last'.arg[1])
                         \/ (\E i \in 1..Len(nutrition) :
                                nutrition[i].food \notin DOMAIN foods)]_vars

\* a meal was edited after its food was: it carries the values computed from
\* the edited food, next to a meal of that food still carrying the old ones
C11_Witness ==
    /\ last.op = "edit_meal"
    /\ last.res = "ok"
    /\ Len(nutrition) = 2
    /\ \E i, j \in 1..2 :
          /\ nutrition[i].id = last.arg[1]
          /\ nutrition[j].id # last.arg[1]
          /\ nutrition[j].food = nutrition[i].food
          /\ foods[nutrition[i].food].cal = 9000
          /\ nutrition[i].calories = 9000
          /\ nutrition[j].calories = 24750

(***************************************************************************)
(* C12.  edit_food changes the per-100g values of the selected food and    *)
(* nothing else: the other foods, and every stored meal with its grams,    *)
(* calories and protein, in memory and in nutrition.json, are as before.   *)
(***************************************************************************)
C12_EditFoodLeavesMeals ==
    [][last'.op = "edit_food" /\ last'.res = "ok" =>
          /\ nutrition' = nutrition
          /\ disk'[NUTR_FILE].st = "ok"
          /\ disk'[NUTR_FILE].val.meals = nutrition
          /\ DOMAIN foods' = DOMAIN foods
          /\ \A f \in DOMAIN foods : f # last'.arg[1] => foods'[f] = foods[f]]_vars

\* a food was edited while a meal of it was stored: the meal still carries the
\* calories and protein of the values it was logged with
C12_Witness ==
    /\ last.op = "edit_food"
    /\ last.res = "ok"
    /\ foods[last.arg[1]].cal = 9000
    /\ \E i \in 1..Len(nutrition) :
          /\ nutrition[i].food = last.arg[1]
          /\ nutrition[i].calories = 24750
          /\ nutrition[i].protein = 4650

(***************************************************************************)
(* C13.  Whenever a meal is written (logged, or edited), its stored        *)
(* calories are the food's calories per 100g of that moment times the      *)
(* meal's stored grams over 100, rounded to two decimals, and its stored   *)
(* protein is the same with the protein per 100g.                          *)
(***************************************************************************)
C13_DerivedFromStoredGrams ==
    [][last'.op \in {"log_meal", "edit_meal"} /\ last'.res = "ok" =>
          \A i \in 1..Len(nutrition') :
             nutrition'[i].id = (IF last'.op = "edit_meal" THEN last'.arg[1] ELSE next_id)
                => /\ nutrition'[i].calories =
                         RoundDiv(foods[nutrition'[i].food].cal * nutrition'[i].grams, 10000)
                   /\ nutrition'[i].protein =
                         RoundDiv(foods[nutrition'[i].food].prot * nutrition'[i].grams, 10000)]_vars

(***************************************************************************)
(* C14.  An add_session, an edit_session or a meal creation that reports   *)
(* an invalid date leaves every stored record as it was, in memory and in  *)
(* the files, the name of the edited session included.  edit_session       *)
(* assigns the new name before it asks for the date and saves whatever the *)
(* date was: the statement fails.                                          *)
(***************************************************************************)
C14_InvalidDateNoEffect ==
    [][last'.op \in {"add_session", "edit_session", "log_meal"}
          /\ last'.res = "invalid date"
       => /\ workouts' = workouts
          /\ nutrition' = nutrition
          /\ foods' = foods
          /\ disk' = disk]_vars

(***************************************************************************)
(* C15.  In every reachable state no two stored sessions have the same id, *)
(* no two stored meals have the same id, and no two exercises, of one      *)
(* session or of two, have the same id.                                    *)
(***************************************************************************)
C15_IdsUnique ==
    /\ \A i, j \in 1..Len(workouts) : workouts[i].id = workouts[j].id => i = j
    /\ \A i, j \in 1..Len(nutrition) : nutrition[i].id = nutrition[j].id => i = j
    /\ \A i, k \in 1..Len(workouts) :
          \A a \in 1..Len(workouts[i].exercises), b \in 1..Len(workouts[k].exercises) :
             workouts[i].exercises[a].id = workouts[k].exercises[b].id
                => i = k /\ a = b

\* two sessions are stored, one of them edited, and one holds an exercise
C15_Witness ==
    /\ Len(workouts) = 2
    /\ \E i \in 1..2 : workouts[i].name = "Pull"
    /\ \E i \in 1..2 : Len(workouts[i].exercises) = 1

(***************************************************************************)
(* C16.  The session listbox drawn by a session handler shows every stored *)
(* session exactly once, a session of a later calendar day above one of an *)
(* earlier day and, of two sessions of one day, the one created later      *)
(* above, and the handler leaves the sessions that stay in the collection  *)
(* in the order they had.  The sort compares the date strings as typed:    *)
(* a session dated 2026-9-1 is listed above one dated 2026-10-18, so the   *)
(* statement fails, for the reason C1 fails.                               *)
(***************************************************************************)
C16_ListingByDateThenCreated ==
    [][last'.op \in {"add_session", "delete_session"} /\ last'.res = "ok" =>
          LET rows == last'.out
              pos(w, id) == CHOOSE i \in 1..Len(w) : w[i].id = id
              sess(k) == workouts'[pos(workouts', rows[k].id)]
          IN  /\ Len(rows) = Len(workouts')
              /\ \A i \in 1..Len(workouts') :
                    Cardinality({k \in 1..Len(rows) : rows[k].id = workouts'[i].id}) = 1
              /\ \A k, l \in 1..Len(rows) :
                    k < l => \/ DayOf(sess(k).date) > DayOf(sess(l).date)
                             \/ /\ DayOf(sess(k).date) = DayOf(sess(l).date)
                                /\ sess(k).created > sess(l).created
              /\ \A i, j \in 1..Len(workouts') :
                    (i < j /\ workouts'[i] \in Range(workouts)
                           /\ workouts'[j] \in Range(workouts))
                       => pos(workouts, workouts'[i].id) < pos(workouts, workouts'[j].id)]_vars

(***************************************************************************)
(* C17.  load_json returns a document as stored only when it has the       *)
(* containers the program expects (sessions in workouts.json, meals - and  *)
(* for fittracker_modern.py foods - in nutrition.json); for a file that is *)
(* missing, unreadable, malformed or without these containers it returns   *)
(* the default.  load_json returns whatever json.load parsed: a document   *)
(* without the containers is returned as it is, so the statement fails.    *)
(***************************************************************************)
C17_LoadDefaultsUnlessWellShaped ==
    \A file \in {WORKOUT_FILE, NUTR_FILE} :
       LET wellShaped ==
               /\ disk[file].st = "ok"
               /\ IF file = WORKOUT_FILE THEN "sessions" \in DOMAIN disk[file].val
                  ELSE /\ "meals" \in DOMAIN disk[file].val
                       /\ prog = "modern" => "foods" \in DOMAIN disk[file].val
       IN  load_json(disk, file) = IF wellShaped THEN disk[file].val ELSE Default(file)

C19_NothingOldAfterStart ==
    last.op = "start" /\ last.res = "ok" =>
       /\ \A i \in 1..Len(workouts) : ~DatedBefore(workouts[i], now - SESSION_KEEP_DAYS)
       /\ \A i \in 1..Len(nutrition) : ~DatedBefore(nutrition[i], now - MEAL_KEEP_DAYS)

(***************************************************************************)
(* C20.  Deleting the selected exercise removes exactly that exercise from *)
(* its session: the other exercises of the session, those of the same      *)
(* name, sets and reps included, stay as they are and in order, and so     *)
(* does every other session.  del_ex of fitness_tracker.py removes every   *)
(* exercise of the session whose name, sets and reps are those of the      *)
(* selected row, so the statement fails.                                   *)
(***************************************************************************)
C20_DeleteExactlyTheSelected ==
    [][last'.op \in {"del_ex", "delete_exercise"} /\ last'.res = "ok" =>
          /\ Len(workouts') = Len(workouts)
          /\ \A i \in 1..Len(workouts) :
                IF workouts[i].id = last'.arg[1]
                THEN /\ \E j \in 1..Len(workouts[i].exercises) :
                           /\ workouts[i].exercises[j].id = last'.arg[2]
                           /\ IsRemovalOf(workouts'[i].exercises,
                                          workouts[i].exercises, {j})
                     /\ workouts'[i] =
                           [workouts[i] EXCEPT !.exercises = workouts'[i].exercises]
                ELSE workouts'[i] = workouts[i]]_vars

====
